---- MODULE Spec2Model ----
(***************************************************************************)
(* nacl.public: PublicKey, PrivateKey and Box (src/src/nacl/public.py).    *)
(*                                                                         *)
(* Byte strings are sequences of naturals 0..255.  A hex text is a         *)
(* sequence of hex digits 0..15.  The libsodium bindings (nacl.c) and the  *)
(* encoders (nacl.encoding) are collaborators of public.py: they are       *)
(* modelled by small executable stand-ins that keep their contracts.       *)
(***************************************************************************)
EXTENDS Integers, Sequences, FiniteSets, TLC

VARIABLES privs, boxes, calls, last, thr

vars == <<privs, boxes, calls, last, thr>>

-----------------------------------------------------------------------------
(* Python values *)

\* Python's None where a byte string is expected (no byte is negative).
None == <<-1>>

\* Python's None where a key object is expected.
NoObj == [none |-> TRUE]

\* b"\xNN" * n
Fill(n, b) == [i \in 1..n |-> b]

\* s[:n] and s[n:]
Prefix(s, n) == SubSeq(s, 1, IF n < Len(s) THEN n ELSE Len(s))
Suffix(s, n) == SubSeq(s, (IF n < Len(s) THEN n ELSE Len(s)) + 1, Len(s))

RECURSIVE Sum(_)
Sum(s) == IF s = <<>> THEN 0 ELSE Head(s) + Sum(Tail(s))

-----------------------------------------------------------------------------
(* Class constants *)

PublicKey_SIZE == 32
PrivateKey_SIZE == 32
NONCE_SIZE == 24
\* the 16 byte authenticator of the Box docstring
TAG_SIZE == 16

-----------------------------------------------------------------------------
(* nacl.encoding: RawEncoder and HexEncoder *)

Encoders == {"RawEncoder", "HexEncoder"}

HexEncode(b) ==
    [i \in 1..(2 * Len(b)) |->
        IF i % 2 = 1 THEN b[(i + 1) \div 2] \div 16 ELSE b[i \div 2] % 16]

HexDecode(t) ==
    [i \in 1..(Len(t) \div 2) |-> 16 * t[2 * i - 1] + t[2 * i]]

Encode(encoder, b) == IF encoder = "HexEncoder" THEN HexEncode(b) ELSE b

Decode(encoder, t) == IF encoder = "HexEncoder" THEN HexDecode(t) ELSE t

\* The texts an encoder's decode is defined on.
WellFormed(encoder, t) ==
    encoder = "HexEncoder" =>
        Len(t) % 2 = 0 /\ \A i \in 1..Len(t) : t[i] \in 0..15

-----------------------------------------------------------------------------
(* nacl.c: stand-ins for the libsodium primitives.  Each invocation is     *)
(* recorded by its caller as a Prim record so that invocations can be      *)
(* counted and their arguments inspected.                                  *)

Prim(name, args) == [name |-> name, args |-> args]

\* scalar multiplication of the base point: a toy Diffie-Hellman group,
\* base 6 modulo the prime 251, the scalar read from the first byte.
RECURSIVE ModExp(_, _, _)
ModExp(b, e, m) == IF e = 0 THEN 1 % m ELSE (b * ModExp(b, e - 1, m)) % m

crypto_scalarmult_base(n) == Fill(32, ModExp(6, n[1], 251))

\* key agreement: point ^ scalar in the same group, so that
\* beforenm(base(a), b) = beforenm(base(b), a).
crypto_box_beforenm(pk, sk) == Fill(32, ModExp(pk[1], sk[1], 251))

\* keystream byte and authenticator byte of the toy secretbox
KeyStream(nonce, k) == (nonce[1] + 3 * k[1]) % 256

Authenticator(body, nonce, k) ==
    Fill(TAG_SIZE, (Sum(body) + Len(body) + 7 * nonce[1] + 13 * k[1] + 1) % 256)

\* authenticated encryption: authenticator, then the masked plaintext
crypto_box_afternm(message, nonce, k) ==
    LET body == [i \in 1..Len(message) |->
                    (message[i] + KeyStream(nonce, k) + i) % 256]
    IN  Authenticator(body, nonce, k) \o body

\* authenticated decryption: the plaintext, or None when the authenticator
\* does not verify (the binding raises CryptoError)
crypto_box_open_afternm(ciphertext, nonce, k) ==
    LET tag  == Prefix(ciphertext, TAG_SIZE)
        body == Suffix(ciphertext, TAG_SIZE)
    IN  IF Len(ciphertext) < TAG_SIZE \/ tag # Authenticator(body, nonce, k)
        THEN None
        ELSE [i \in 1..Len(body) |->
                (body[i] + 512 - KeyStream(nonce, k) - i) % 256]

\* nacl.utils.random(size): size random bytes, here all equal to seed
random(size, seed) == Fill(size, seed)

-----------------------------------------------------------------------------
(* nacl.public.  A constructor or method is an operator from its arguments *)
(* to a record: status ("ok" or the exception raised), the object built or *)
(* value returned, and prims, the primitive invocations it made in order.  *)
(* A method of Box also yields self, the box as the call leaves it.        *)

\* encoding.Encodable.encode: encoder.encode(bytes(self))
Encodable_encode(raw, encoder) == Encode(encoder, raw)

\* PublicKey.__init__ ; ValueError("The public key must be exactly ...")
PublicKey_init(public_key, encoder) ==
    LET decoded == Decode(encoder, public_key)
    IN  IF Len(decoded) # PublicKey_SIZE
        THEN [status |-> "InvalidKeyLength", obj |-> NoObj, prims |-> <<>>]
        ELSE [status |-> "ok", obj |-> [public_key |-> decoded], prims |-> <<>>]

\* Mutant: the public key is derived before the size is checked.
PrivateKey_init_derive_first(private_key, encoder) ==
    LET decoded == Decode(encoder, private_key)
        raw_public_key == crypto_scalarmult_base(decoded)
        prims == <<Prim("crypto_scalarmult_base", <<decoded>>)>>
    IN  IF Len(decoded) # PrivateKey_SIZE
        THEN [status |-> "InvalidKeyLength", obj |-> NoObj, prims |-> prims]
        ELSE [status |-> "ok",
              obj |-> [private_key |-> decoded,
                       public_key |-> [public_key |-> raw_public_key]],
              prims |-> prims]

\* Mutant: the public key is derived from the text as given, not decoded.
PrivateKey_init_from_text(private_key, encoder) ==
    LET decoded == Decode(encoder, private_key)
    IN  IF Len(decoded) # PrivateKey_SIZE
        THEN [status |-> "InvalidKeyLength", obj |-> NoObj, prims |-> <<>>]
        ELSE [status |-> "ok",
              obj |-> [private_key |-> decoded,
                       public_key |->
                           [public_key |-> crypto_scalarmult_base(private_key)]],
              prims |-> <<Prim("crypto_scalarmult_base", <<private_key>>)>>]

\* PrivateKey.__init__ ; ValueError("The secret key must be exactly ...")
PrivateKey_init(private_key, encoder) ==
    LET decoded == Decode(encoder, private_key)
    IN  IF Len(decoded) # PrivateKey_SIZE
        THEN [status |-> "InvalidKeyLength", obj |-> NoObj, prims |-> <<>>]
        ELSE LET raw_public_key == crypto_scalarmult_base(decoded)
                 pk == PublicKey_init(raw_public_key, "RawEncoder")
                 prims == <<Prim("crypto_scalarmult_base", <<decoded>>)>>
             IN  IF pk.status # "ok"
                 THEN [status |-> pk.status, obj |-> NoObj, prims |-> prims]
                 ELSE [status |-> "ok",
                       obj |-> [private_key |-> decoded, public_key |-> pk.obj],
                       prims |-> prims]

\* PrivateKey.generate
PrivateKey_generate(seed) ==
    PrivateKey_init(random(PrivateKey_SIZE, seed), "RawEncoder")

\* Mutants: the agreement is made with the private key's own public key; the
\* agreement is made twice.
Box_init_bug(private_key, public_key, bug) ==
    IF private_key # NoObj /\ public_key # NoObj
    THEN LET pk == IF bug = "own" THEN private_key.public_key.public_key
                                  ELSE public_key.public_key
             sk == private_key.private_key
             once == <<Prim("crypto_box_beforenm", <<pk, sk>>)>>
         IN  [status |-> "ok",
              obj |-> [shared_key |-> crypto_box_beforenm(pk, sk)],
              prims |-> IF bug = "twice" THEN once \o once ELSE once]
    ELSE [status |-> "ok", obj |-> [shared_key |-> None], prims |-> <<>>]

Box_init_own_key(private_key, public_key) ==
    Box_init_bug(private_key, public_key, "own")

Box_init_twice(private_key, public_key) ==
    Box_init_bug(private_key, public_key, "twice")

\* Box.__init__
Box_init(private_key, public_key) ==
    IF private_key # NoObj /\ public_key # NoObj
    THEN LET pk == Encodable_encode(public_key.public_key, "RawEncoder")
             sk == Encodable_encode(private_key.private_key, "RawEncoder")
         IN  [status |-> "ok",
              obj |-> [shared_key |-> crypto_box_beforenm(pk, sk)],
              prims |-> <<Prim("crypto_box_beforenm", <<pk, sk>>)>>]
    ELSE [status |-> "ok", obj |-> [shared_key |-> None], prims |-> <<>>]

\* Box.decode, line by line: box = cls(None, None)
Box_decode_new == Box_init(NoObj, NoObj)

\* box._shared_key = encoder.decode(encoded)
Box_decode_assign(box, encoded, encoder) ==
    [box EXCEPT !.shared_key = Decode(encoder, encoded)]

\* Box.decode
Box_decode(encoded, encoder) ==
    LET new == Box_decode_new
    IN  [status |-> "ok",
         obj |-> Box_decode_assign(new.obj, encoded, encoder),
         prims |-> new.prims]

\* EncryptedMessage._from_parts
EncryptedMessage(nonce, ciphertext, combined) ==
    [nonce |-> nonce, ciphertext |-> ciphertext, combined |-> combined]

NoMessage == [none |-> TRUE]

\* Mutants: the combined form is ciphertext then nonce; the nonce size is
\* not checked.
Box_encrypt_bug(self, plaintext, nonce, encoder, bug) ==
    IF bug # "nocheck" /\ Len(nonce) # NONCE_SIZE
    THEN [status |-> "InvalidNonceLength", self |-> self, ret |-> NoMessage,
          prims |-> <<>>]
    ELSE LET prims == <<Prim("crypto_box_afternm",
                             <<plaintext, nonce, self.shared_key>>)>>
         IN  IF self.shared_key = None \/ nonce = <<>>
             THEN [status |-> "TypeError", self |-> self, ret |-> NoMessage,
                   prims |-> prims]
             ELSE LET ciphertext ==
                          crypto_box_afternm(plaintext, nonce, self.shared_key)
                  IN  [status |-> "ok", self |-> self,
                       ret |-> EncryptedMessage(Encode(encoder, nonce),
                                   Encode(encoder, ciphertext),
                                   Encode(encoder,
                                       IF bug = "swapped"
                                       THEN ciphertext \o nonce
                                       ELSE nonce \o ciphertext)),
                       prims |-> prims]

Box_encrypt_swapped(self, plaintext, nonce, encoder) ==
    Box_encrypt_bug(self, plaintext, nonce, encoder, "swapped")

Box_encrypt_nocheck(self, plaintext, nonce, encoder) ==
    Box_encrypt_bug(self, plaintext, nonce, encoder, "nocheck")

\* Box.encrypt ; ValueError("The nonce must be exactly ...") ; the binding
\* raises TypeError when handed None for the key.
Box_encrypt(self, plaintext, nonce, encoder) ==
    IF Len(nonce) # NONCE_SIZE
    THEN [status |-> "InvalidNonceLength", self |-> self, ret |-> NoMessage,
          prims |-> <<>>]
    ELSE LET prims == <<Prim("crypto_box_afternm",
                             <<plaintext, nonce, self.shared_key>>)>>
         IN  IF self.shared_key = None
             THEN [status |-> "TypeError", self |-> self, ret |-> NoMessage,
                   prims |-> prims]
             ELSE LET ciphertext ==
                          crypto_box_afternm(plaintext, nonce, self.shared_key)
                      encoded_nonce == Encode(encoder, nonce)
                      encoded_ciphertext == Encode(encoder, ciphertext)
                  IN  [status |-> "ok", self |-> self,
                       ret |-> EncryptedMessage(encoded_nonce,
                                   encoded_ciphertext,
                                   Encode(encoder, nonce \o ciphertext)),
                       prims |-> prims]

\* Mutants: the input is not decoded; a failed authentication returns the
\* unverified bytes; a failed authentication clears the shared key.
Box_decrypt_bug(self, ciphertext, nonce, encoder, bug) ==
    LET decoded == IF bug = "nodecode" THEN ciphertext
                                       ELSE Decode(encoder, ciphertext)
        n == IF nonce = None THEN Prefix(decoded, NONCE_SIZE) ELSE nonce
        c == IF nonce = None THEN Suffix(decoded, NONCE_SIZE) ELSE decoded
    IN  IF Len(n) # NONCE_SIZE
        THEN [status |-> "InvalidNonceLength", self |-> self, ret |-> None,
              prims |-> <<>>]
        ELSE LET prims == <<Prim("crypto_box_open_afternm",
                                 <<c, n, self.shared_key>>)>>
             IN  IF self.shared_key = None
                 THEN [status |-> "TypeError", self |-> self, ret |-> None,
                       prims |-> prims]
                 ELSE LET plaintext ==
                              crypto_box_open_afternm(c, n, self.shared_key)
                      IN  IF plaintext # None
                          THEN [status |-> "ok", self |-> self,
                                ret |-> plaintext, prims |-> prims]
                          ELSE IF bug = "failopen"
                          THEN [status |-> "ok", self |-> self,
                                ret |-> Suffix(c, TAG_SIZE), prims |-> prims]
                          ELSE [status |-> "AuthenticationFailure",
                                self |-> IF bug = "wipe"
                                         THEN [shared_key |-> None] ELSE self,
                                ret |-> None, prims |-> prims]

Box_decrypt_nodecode(self, ciphertext, nonce, encoder) ==
    Box_decrypt_bug(self, ciphertext, nonce, encoder, "nodecode")

Box_decrypt_failopen(self, ciphertext, nonce, encoder) ==
    Box_decrypt_bug(self, ciphertext, nonce, encoder, "failopen")

Box_decrypt_wipe(self, ciphertext, nonce, encoder) ==
    Box_decrypt_bug(self, ciphertext, nonce, encoder, "wipe")

\* Box.decrypt ; nonce = None when the caller omits it ; the binding raises
\* CryptoError when the authenticator does not verify.
Box_decrypt(self, ciphertext, nonce, encoder) ==
    LET decoded == Decode(encoder, ciphertext)
        n == IF nonce = None THEN Prefix(decoded, NONCE_SIZE) ELSE nonce
        c == IF nonce = None THEN Suffix(decoded, NONCE_SIZE) ELSE decoded
    IN  IF Len(n) # NONCE_SIZE
        THEN [status |-> "InvalidNonceLength", self |-> self, ret |-> None,
              prims |-> <<>>]
        ELSE LET prims == <<Prim("crypto_box_open_afternm",
                                 <<c, n, self.shared_key>>)>>
             IN  IF self.shared_key = None
                 THEN [status |-> "TypeError", self |-> self, ret |-> None,
                       prims |-> prims]
                 ELSE LET plaintext ==
                              crypto_box_open_afternm(c, n, self.shared_key)
                      IN  IF plaintext = None
                          THEN [status |-> "AuthenticationFailure",
                                self |-> self, ret |-> None, prims |-> prims]
                          ELSE [status |-> "ok", self |-> self,
                                ret |-> plaintext, prims |-> prims]

-----------------------------------------------------------------------------
(* Bounds and the inputs callers draw from *)

MaxKeys == 2
MaxBoxes == 1

K(seed) == Fill(32, seed)

\* private key material as callers pass it: right size, one byte short, one
\* byte long, and hex texts of each
KeyTexts ==
    {K(1), K(2), Fill(31, 1), Fill(33, 1),
     HexEncode(K(1)), HexEncode(Fill(31, 2)), HexEncode(Fill(33, 2))}

\* a third party's public key as received, and wrongly sized variants
PubTexts ==
    {crypto_scalarmult_base(K(3)), HexEncode(crypto_scalarmult_base(K(3))),
     Fill(31, 6), Fill(33, 6), HexEncode(Fill(31, 6))}

\* a serialized shared secret
SecretTexts == {K(9), HexEncode(K(9))}

Plaintexts == {<<>>, <<104, 105>>}

N(seed) == Fill(NONCE_SIZE, seed)

Nonces == {N(1), N(2)}

BadNonces == {<<>>, Fill(NONCE_SIZE - 1, 1), Fill(NONCE_SIZE + 1, 1)}

-----------------------------------------------------------------------------
(* State *)

NoCall == [op |-> "none"]

\* the record of a finished call: the box it was made on as the call found
\* it, the arguments, the outcome r, and for a decrypt the encrypt call whose
\* message it was given
Call(op, self, args, of, r) ==
    [op |-> op, self |-> self, args |-> args, of |-> of, status |-> r.status,
     ret |-> IF "obj" \in DOMAIN r THEN r.obj ELSE r.ret, prims |-> r.prims]

Count(prims, name) == Cardinality({i \in DOMAIN prims : prims[i].name = name})

\* primitive invocations so far, and boxes built from two keys so far
Tally(r, keypair) ==
    [crypto_scalarmult_base |->
        calls.crypto_scalarmult_base + Count(r.prims, "crypto_scalarmult_base"),
     crypto_box_beforenm |->
        calls.crypto_box_beforenm + Count(r.prims, "crypto_box_beforenm"),
     keypair_boxes |-> calls.keypair_boxes + (IF keypair THEN 1 ELSE 0)]

Threads == {"t1", "t2"}

Idle == [pc |-> "idle"]

Init ==
    /\ privs = <<>>
    /\ boxes = <<>>
    /\ calls = [crypto_scalarmult_base |-> 0, crypto_box_beforenm |-> 0,
                keypair_boxes |-> 0]
    /\ last = NoCall
    /\ thr = [t \in Threads |-> Idle]

\* the key objects a caller holds
PrivObjs == {privs[i] : i \in DOMAIN privs}
PubObjs ==
    {privs[i].public_key : i \in DOMAIN privs}
    \cup (IF last.op = "PublicKey" /\ last.status = "ok" THEN {last.ret} ELSE {})

-----------------------------------------------------------------------------
(* One action per call of the public interface *)

\* PublicKey(text, encoder)
NewPublicKey ==
    \E encoder \in Encoders, text \in PubTexts :
        /\ WellFormed(encoder, text)
        /\ LET r == PublicKey_init(text, encoder)
           IN  /\ calls' = Tally(r, FALSE)
               /\ last' = Call("PublicKey", NoObj, <<text, encoder>>, NoCall, r)
        /\ UNCHANGED <<privs, boxes, thr>>

\* PrivateKey(text, encoder)
NewPrivateKey ==
    \E encoder \in Encoders, text \in KeyTexts :
        /\ WellFormed(encoder, text)
        /\ Len(privs) < MaxKeys
        /\ LET r == PrivateKey_init(text, encoder)
           IN  /\ privs' = IF r.status = "ok" THEN Append(privs, r.obj) ELSE privs
               /\ calls' = Tally(r, FALSE)
               /\ last' = Call("PrivateKey", NoObj, <<text, encoder>>, NoCall, r)
        /\ UNCHANGED <<boxes, thr>>

\* PrivateKey.generate()
Generate ==
    \E seed \in {1, 2} :
        /\ Len(privs) < MaxKeys
        /\ LET r == PrivateKey_generate(seed)
           IN  /\ privs' = IF r.status = "ok" THEN Append(privs, r.obj) ELSE privs
               /\ calls' = Tally(r, FALSE)
               /\ last' = Call("generate", NoObj, <<>>, NoCall, r)
        /\ UNCHANGED <<boxes, thr>>

\* Box(private_key, public_key)
NewBox ==
    \E sk \in PrivObjs \cup {NoObj}, pk \in PubObjs \cup {NoObj} :
        /\ Len(boxes) < MaxBoxes
        /\ LET r == Box_init(sk, pk)
           IN  /\ boxes' = IF r.status = "ok" THEN Append(boxes, r.obj) ELSE boxes
               /\ calls' = Tally(r, sk # NoObj /\ pk # NoObj)
               /\ last' = Call("Box", NoObj, <<sk, pk>>, NoCall, r)
        /\ UNCHANGED <<privs, thr>>

\* Box.decode(text, encoder)
DecodeBox ==
    \E encoder \in Encoders, text \in SecretTexts :
        /\ WellFormed(encoder, text)
        /\ Len(boxes) < MaxBoxes
        /\ LET r == Box_decode(text, encoder)
           IN  /\ boxes' = IF r.status = "ok" THEN Append(boxes, r.obj) ELSE boxes
               /\ calls' = Tally(r, FALSE)
               /\ last' = Call("decode", NoObj, <<text, encoder>>, NoCall, r)
        /\ UNCHANGED <<privs, thr>>

\* boxes[i].encrypt(plaintext, nonce, encoder)
Encrypt(i, plaintext, nonce, encoder) ==
    LET r == Box_encrypt(boxes[i], plaintext, nonce, encoder)
    IN  /\ boxes' = [boxes EXCEPT ![i] = r.self]
        /\ calls' = Tally(r, FALSE)
        /\ last' = Call("encrypt", boxes[i], <<i, plaintext, nonce, encoder>>,
                       NoCall, r)
        /\ UNCHANGED <<privs, thr>>

\* boxes[i].decrypt(ciphertext, nonce, encoder)
Decrypt(i, ciphertext, nonce, encoder, of) ==
    LET r == Box_decrypt(boxes[i], ciphertext, nonce, encoder)
    IN  /\ boxes' = [boxes EXCEPT ![i] = r.self]
        /\ calls' = Tally(r, FALSE)
        /\ last' = Call("decrypt", boxes[i], <<i, ciphertext, nonce, encoder>>,
                       of, r)
        /\ UNCHANGED <<privs, thr>>

-----------------------------------------------------------------------------
(* What arrives at decrypt: messages some sender encrypted, as sent or as  *)
(* altered on the way.  An input is <<ciphertext, nonce, encoder>>, the    *)
(* nonce None when the caller omits it.                                    *)

\* flip bit b of byte j
FlipBit(s, j, b) ==
    [s EXCEPT ![j] = IF (s[j] \div (2 ^ b)) % 2 = 0 THEN s[j] + 2 ^ b
                                                     ELSE s[j] - 2 ^ b]

\* the decoded bytes of text with bit b of byte j flipped, encoded again
Tampered(text, encoder, j, b) ==
    Encode(encoder, FlipBit(Decode(encoder, text), j, b))

\* the decoded bytes of text cut to n bytes, encoded again
Truncated(text, encoder, n) ==
    Encode(encoder, Prefix(Decode(encoder, text), n))

\* the ways a message m, encrypted with nonce and encoder, reaches decrypt
\* untouched
Faithful(m, nonce, encoder) ==
    {<<m.ciphertext, nonce, encoder>>, <<m.combined, None, encoder>>}

\* ... and with the wrong nonce, a bit flipped or bytes missing
Altered(m, nonce, encoder) ==
    LET size == Len(Decode(encoder, m.ciphertext))
    IN  {<<m.ciphertext, n, encoder>> : n \in (Nonces \ {nonce}) \cup BadNonces}
        \cup {<<m.ciphertext, m.nonce, encoder>>}
        \cup {<<Tampered(m.ciphertext, encoder, j, b), nonce, encoder>> :
                 j \in {1, TAG_SIZE, size}, b \in {0, 7}}
        \cup {<<Tampered(m.combined, encoder, NONCE_SIZE + j, b), None, encoder>> :
                 j \in {1, size}, b \in {0, 7}}
        \cup {<<Truncated(m.combined, encoder, n), None, encoder>> :
                 n \in {0, NONCE_SIZE - 1, NONCE_SIZE, NONCE_SIZE + TAG_SIZE - 1}}

\* the shared secrets of the boxes that exist
SenderKeys == {boxes[j].shared_key : j \in DOMAIN boxes} \ {None}

\* every input built from a message encrypted under one of keys
Arriving(keys, plaintexts, nonces, encoders, altered) ==
    UNION {LET m == Box_encrypt([shared_key |-> k], p, n, e).ret
           IN  Faithful(m, n, e) \cup (IF altered THEN Altered(m, n, e) ELSE {}) :
           <<k, p, n, e>> \in keys \X plaintexts \X nonces \X encoders}

-----------------------------------------------------------------------------
(* Spec: objects are built and used, one call at a time *)

EncryptCall ==
    \E i \in DOMAIN boxes, nonce \in {N(1), Fill(NONCE_SIZE - 1, 1)},
       encoder \in Encoders :
        Encrypt(i, <<104, 105>>, nonce, encoder)

DecryptCall ==
    \E i \in DOMAIN boxes :
        \E in \in Arriving(SenderKeys, {<<104, 105>>}, {N(1)}, {"RawEncoder"}, FALSE)
                   \cup {<<K(5), None, "RawEncoder">>} :
            Decrypt(i, in[1], in[2], in[3], NoCall)

Next ==
    \/ NewPublicKey
    \/ NewPrivateKey
    \/ Generate
    \/ NewBox
    \/ DecodeBox
    \/ EncryptCall
    \/ DecryptCall

Spec == Init /\ [][Next]_vars

-----------------------------------------------------------------------------
(* SpecMsg: two parties and a third hold their boxes; messages are         *)
(* encrypted, carried (faithfully or not) and decrypted.                   *)

\* boxes <<A to B, B to A, A to a third party, from a serialized secret,
\* empty>>
InitMsg ==
    \E a \in {1, 2, 3} :
        LET skA == PrivateKey_generate(a).obj
            skB == PrivateKey_generate(2).obj
            pkM == PublicKey_init(crypto_scalarmult_base(K(3)), "RawEncoder").obj
        IN  /\ privs = <<skA, skB>>
            /\ boxes = <<Box_init(skA, skB.public_key).obj,
                         Box_init(skB, skA.public_key).obj,
                         Box_init(skA, pkM).obj,
                         Box_decode(HexEncode(K(9)), "HexEncoder").obj,
                         Box_init(NoObj, NoObj).obj>>
            /\ calls = [crypto_scalarmult_base |-> 2, crypto_box_beforenm |-> 3,
                        keypair_boxes |-> 3]
            /\ last = NoCall
            /\ thr = [t \in Threads |-> Idle]

EncryptMsg ==
    \E i \in DOMAIN boxes, plaintext \in Plaintexts,
       nonce \in Nonces \cup BadNonces, encoder \in Encoders :
        Encrypt(i, plaintext, nonce, encoder)

\* the message of the encrypt call just finished reaches some box
DecryptMsg ==
    /\ last.op = "encrypt"
    /\ last.status = "ok"
    /\ \E i \in DOMAIN boxes :
            \E in \in Faithful(last.ret, last.args[3], last.args[4])
                       \cup Altered(last.ret, last.args[3], last.args[4]) :
                Decrypt(i, in[1], in[2], in[3], last)

NextMsg ==
    \/ EncryptMsg
    \/ DecryptMsg

SpecMsg == InitMsg /\ [][NextMsg]_vars

-----------------------------------------------------------------------------
(* SpecThreads: two threads share the boxes.  A call is entered with its   *)
(* arguments and runs to its return later, other threads' steps in         *)
(* between; Box.decode runs line by line on a box no other thread holds.   *)

InitThreads ==
    /\ privs = <<PrivateKey_generate(1).obj, PrivateKey_generate(2).obj>>
    /\ boxes = <<>>
    /\ calls = [crypto_scalarmult_base |-> 2, crypto_box_beforenm |-> 0,
                keypair_boxes |-> 0]
    /\ last = NoCall
    /\ thr = [t \in Threads |-> Idle]

\* boxes being built by Box.decode
Decoding == {t \in Threads : thr[t].pc \in {"decode_assign", "decode_return"}}

\* Box(private_key, public_key) by thread t
ThreadNewBox(t) ==
    /\ thr[t] = Idle
    /\ Len(boxes) + Cardinality(Decoding) < MaxBoxes
    /\ \E sk \in {privs[1], NoObj}, pk \in {privs[2].public_key} :
           LET r == Box_init(sk, pk)
           IN  /\ boxes' = Append(boxes, r.obj)
               /\ calls' = Tally(r, sk # NoObj /\ pk # NoObj)
               /\ last' = Call("Box", NoObj, <<sk, pk>>, NoCall, r)
    /\ UNCHANGED <<privs, thr>>

\* Box.decode: box = cls(None, None)
ThreadDecodeNew(t) ==
    /\ thr[t] = Idle
    /\ Len(boxes) + Cardinality(Decoding) < MaxBoxes
    /\ LET r == Box_decode_new
       IN  /\ thr' = [thr EXCEPT ![t] = [pc |-> "decode_assign", box |-> r.obj,
                                         text |-> K(9), encoder |-> "RawEncoder"]]
           /\ calls' = Tally(r, FALSE)
    /\ UNCHANGED <<privs, boxes, last>>

\* Box.decode: box._shared_key = encoder.decode(encoded)
ThreadDecodeAssign(t) ==
    /\ thr[t].pc = "decode_assign"
    /\ thr' = [thr EXCEPT ![t] =
                  [@ EXCEPT !.pc = "decode_return",
                            !.box = Box_decode_assign(@, thr[t].text,
                                                      thr[t].encoder)]]
    /\ UNCHANGED <<privs, boxes, calls, last>>

\* Box.decode: return box
ThreadDecodeReturn(t) ==
    /\ thr[t].pc = "decode_return"
    /\ boxes' = Append(boxes, thr[t].box)
    /\ last' = Call("decode", NoObj, <<thr[t].text, thr[t].encoder>>, NoCall,
                    [status |-> "ok", obj |-> thr[t].box, prims |-> <<>>])
    /\ thr' = [thr EXCEPT ![t] = Idle]
    /\ UNCHANGED <<privs, calls>>

\* thread t enters boxes[i].encrypt or boxes[i].decrypt
ThreadEnter(t) ==
    /\ thr[t] = Idle
    /\ \E i \in DOMAIN boxes :
           \/ \E nonce \in {N(1), Fill(NONCE_SIZE - 1, 1)} :
                 thr' = [thr EXCEPT ![t] =
                            [pc |-> "encrypt", i |-> i,
                             args |-> <<<<104, 105>>, nonce, "RawEncoder">>]]
           \/ \E in \in Arriving(SenderKeys \cup {K(9)}, {<<104, 105>>}, {N(1)},
                                 {"RawEncoder"}, FALSE)
                          \cup {<<Fill(5, 1), None, "RawEncoder">>} :
                 thr' = [thr EXCEPT ![t] =
                            [pc |-> "decrypt", i |-> i, args |-> in]]
    /\ UNCHANGED <<privs, boxes, calls, last>>

\* the call thread t entered runs on the box as it is now, and returns
ThreadReturn(t) ==
    /\ thr[t].pc \in {"encrypt", "decrypt"}
    /\ LET i == thr[t].i
           a == thr[t].args
           r == IF thr[t].pc = "encrypt"
                THEN Box_encrypt(boxes[i], a[1], a[2], a[3])
                ELSE Box_decrypt(boxes[i], a[1], a[2], a[3])
       IN  /\ boxes' = [boxes EXCEPT ![i] = r.self]
           /\ calls' = Tally(r, FALSE)
           /\ last' = Call(thr[t].pc, boxes[i], <<i>> \o a, NoCall, r)
    /\ thr' = [thr EXCEPT ![t] = Idle]
    /\ UNCHANGED privs

NextThreads ==
    \E t \in Threads :
        \/ ThreadNewBox(t)
        \/ ThreadDecodeNew(t)
        \/ ThreadDecodeAssign(t)
        \/ ThreadDecodeReturn(t)
        \/ ThreadEnter(t)
        \/ ThreadReturn(t)

SpecThreads == InitThreads /\ [][NextThreads]_vars

-----------------------------------------------------------------------------
(* Properties.  A finished decrypt call is last; last.of is the encrypt    *)
(* call whose message it was given.                                        *)

\* the arguments of the last call, by name (encrypt and decrypt)
ArgBox == last.args[1]
ArgText == last.args[2]
ArgNonce == last.args[3]
ArgEncoder == last.args[4]

\* the last call decrypted, on the box that encrypted it and with the same
\* encoder, the message of last.of
DecryptedOwn ==
    /\ last.op = "decrypt"
    /\ last.of.op = "encrypt"
    /\ ArgBox = last.of.args[1]
    /\ ArgEncoder = last.of.args[4]

\* C1: decrypting the .ciphertext of an encrypted message on the same box,
\* with the same encoder and the raw nonce given to encrypt, returns exactly
\* the plaintext that was encrypted.
C1_RoundTrip ==
    (/\ DecryptedOwn
     /\ ArgText = last.of.ret.ciphertext
     /\ ArgNonce = last.of.args[3])
    => /\ last.status = "ok"
       /\ last.ret = last.of.args[2]

C1_Witness ==
    /\ DecryptedOwn
    /\ ArgText = last.of.ret.ciphertext
    /\ ArgNonce = last.of.args[3]
    /\ ArgEncoder = "HexEncoder"
    /\ last.ret = <<104, 105>>

\* C2: decrypting the .combined of an encrypted message on the same box with
\* the same encoder and no nonce returns exactly the plaintext; the nonce
\* and ciphertext handed to the primitive are the first NONCE_SIZE bytes and
\* the rest of the decoded input, which are the nonce given to encrypt and
\* the ciphertext encrypt produced.
C2_CombinedRoundTrip ==
    (/\ DecryptedOwn
     /\ ArgText = last.of.ret.combined
     /\ ArgNonce = None)
    => /\ last.status = "ok"
       /\ last.ret = last.of.args[2]
       /\ Len(last.prims) = 1
       /\ last.prims[1].args[1] = Suffix(Decode(ArgEncoder, ArgText), NONCE_SIZE)
       /\ last.prims[1].args[1] = Decode(ArgEncoder, last.of.ret.ciphertext)
       /\ last.prims[1].args[2] = Prefix(Decode(ArgEncoder, ArgText), NONCE_SIZE)
       /\ last.prims[1].args[2] = last.of.args[3]

C2_Witness ==
    /\ DecryptedOwn
    /\ ArgText = last.of.ret.combined
    /\ ArgNonce = None
    /\ ArgEncoder = "HexEncoder"
    /\ last.ret = <<104, 105>>

\* the last call was given, untouched, the message of last.of, as its
\* .ciphertext with the raw nonce or as its .combined with no nonce
DecryptedFaithful ==
    /\ last.op = "decrypt"
    /\ last.of.op = "encrypt"
    /\ ArgEncoder = last.of.args[4]
    /\ \/ ArgText = last.of.ret.ciphertext /\ ArgNonce = last.of.args[3]
       \/ ArgText = last.of.ret.combined /\ ArgNonce = None

\* C3: the boxes Box(skA, skB.public_key) and Box(skB, skA.public_key) hold
\* the same shared secret, and a message either of them encrypted is
\* decrypted by the other, given ciphertext and nonce, to the plaintext.
C3_TwoParty ==
    /\ boxes[1] = Box_init(privs[1], privs[2].public_key).obj
    /\ boxes[2] = Box_init(privs[2], privs[1].public_key).obj
    /\ boxes[1].shared_key = boxes[2].shared_key
    /\ (/\ DecryptedFaithful
        /\ {ArgBox, last.of.args[1]} = {1, 2})
       => /\ last.status = "ok"
          /\ last.ret = last.of.args[2]

C3_Witness ==
    /\ DecryptedFaithful
    /\ ArgBox = 2
    /\ last.of.args[1] = 1
    /\ privs[1] # privs[2]
    /\ ArgNonce # None
    /\ last.ret = <<104, 105>>

\* the last call was given the message of last.of with one bit of its
\* ciphertext (authenticator included) flipped, the nonce as encrypt had it
DecryptedTampered ==
    /\ last.op = "decrypt"
    /\ last.of.op = "encrypt"
    /\ ArgEncoder = last.of.args[4]
    /\ \E j \in 1..Len(Decode(ArgEncoder, last.of.ret.ciphertext)), b \in 0..7 :
          \/ /\ ArgNonce = last.of.args[3]
             /\ ArgText = Tampered(last.of.ret.ciphertext, ArgEncoder, j, b)
          \/ /\ ArgNonce = None
             /\ ArgText = Tampered(last.of.ret.combined, ArgEncoder,
                                   NONCE_SIZE + j, b)

\* C4: on a box with a shared secret, decrypt returns a plaintext only when
\* its input is exactly what encrypt makes of that plaintext, the nonce and
\* the encoder on that box; a message with a bit of its ciphertext flipped,
\* or a message of a box with another shared secret, fails with
\* AuthenticationFailure; and a failed decrypt returns nothing.
C4_FailClosed ==
    last.op = "decrypt" =>
        /\ last.status = "ok" =>
              IF ArgNonce = None
              THEN ArgText =
                     Box_encrypt(last.self, last.ret,
                                 Prefix(Decode(ArgEncoder, ArgText), NONCE_SIZE),
                                 ArgEncoder).ret.combined
              ELSE ArgText =
                     Box_encrypt(last.self, last.ret, ArgNonce,
                                 ArgEncoder).ret.ciphertext
        /\ (DecryptedTampered /\ last.self.shared_key # None)
              => last.status = "AuthenticationFailure"
        /\ (/\ DecryptedFaithful
            /\ last.self.shared_key # None
            /\ last.self.shared_key # last.of.self.shared_key)
              => last.status = "AuthenticationFailure"
        /\ last.status # "ok" => last.ret = None

C4_Witness ==
    /\ DecryptedTampered
    /\ last.self.shared_key = last.of.self.shared_key
    /\ last.status = "AuthenticationFailure"
    /\ last.ret = None

\* the nonce a decrypt call uses: the one given, as given, or the first
\* NONCE_SIZE bytes of the decoded input
NonceUsed ==
    IF ArgNonce = None THEN Prefix(Decode(ArgEncoder, ArgText), NONCE_SIZE)
                       ELSE ArgNonce

\* C6: encrypt and decrypt fail with InvalidNonceLength, invoke no primitive
\* and return nothing exactly when the nonce used is not NONCE_SIZE bytes
\* long; otherwise the primitive receives that nonce.
C6_NonceSize ==
    /\ last.op = "encrypt" =>
          IF Len(ArgNonce) # NONCE_SIZE
          THEN /\ last.status = "InvalidNonceLength"
               /\ last.prims = <<>>
               /\ last.ret = NoMessage
          ELSE /\ last.status # "InvalidNonceLength"
               /\ Len(last.prims) = 1
               /\ last.prims[1].args[2] = ArgNonce
    /\ last.op = "decrypt" =>
          IF Len(NonceUsed) # NONCE_SIZE
          THEN /\ last.status = "InvalidNonceLength"
               /\ last.prims = <<>>
               /\ last.ret = None
          ELSE /\ last.status # "InvalidNonceLength"
               /\ Len(last.prims) = 1
               /\ last.prims[1].args[2] = NonceUsed

\* a hex-encoded nonce handed to decrypt is taken as given: 48 digits, not 24
\* bytes
C6_Witness ==
    /\ last.op = "decrypt"
    /\ ArgEncoder = "HexEncoder"
    /\ ArgNonce # None
    /\ Len(ArgNonce) = 2 * NONCE_SIZE
    /\ Len(Decode(ArgEncoder, ArgNonce)) = NONCE_SIZE
    /\ last.status = "InvalidNonceLength"
    /\ last.prims = <<>>

\* every PublicKey object a caller holds
PublicKeys ==
    {privs[i].public_key : i \in DOMAIN privs}
    \cup (IF last.op = "PublicKey" /\ last.ret # NoObj THEN {last.ret} ELSE {})

\* C5: PublicKey(text, encoder) and PrivateKey(text, encoder) fail with
\* InvalidKeyLength exactly when the decoded text is not 32 bytes long; a
\* failed construction yields no object and has invoked no primitive; every
\* key object holds exactly 32 bytes.
C5_KeySize ==
    /\ last.op \in {"PublicKey", "PrivateKey"} =>
          IF Len(Decode(last.args[2], last.args[1])) # 32
          THEN /\ last.status = "InvalidKeyLength"
               /\ last.ret = NoObj
               /\ last.prims = <<>>
          ELSE /\ last.status = "ok"
               /\ last.ret # NoObj
    /\ \A i \in DOMAIN privs : Len(privs[i].private_key) = PrivateKey_SIZE
    /\ \A pk \in PublicKeys : Len(pk.public_key) = PublicKey_SIZE

\* a hex text of 33 bytes is refused as a private key
C5_Witness ==
    /\ last.op = "PrivateKey"
    /\ last.args[2] = "HexEncoder"
    /\ Len(last.args[1]) = 2 * (PrivateKey_SIZE + 1)
    /\ last.status = "InvalidKeyLength"
    /\ last.ret = NoObj

\* C7: the public key of every PrivateKey is crypto_scalarmult_base of its
\* private key, so equal private keys have equal public keys; the primitive
\* has been invoked once per PrivateKey built, by the constructor, and no
\* other call invokes it.
C7_PublicKeyDerivation ==
    /\ \A i \in DOMAIN privs :
          privs[i].public_key.public_key =
              crypto_scalarmult_base(privs[i].private_key)
    /\ \A i, j \in DOMAIN privs :
          privs[i].private_key = privs[j].private_key
              => privs[i].public_key = privs[j].public_key
    /\ calls.crypto_scalarmult_base = Len(privs)
    /\ (last.op \in {"PrivateKey", "generate"} /\ last.status = "ok")
          => /\ Count(last.prims, "crypto_scalarmult_base") = 1
             /\ last.prims[1].args[1] = last.ret.private_key
    /\ (last.op \notin {"none", "PrivateKey", "generate"})
          => Count(last.prims, "crypto_scalarmult_base") = 0

\* two PrivateKey objects built from the same key material exist, and a box
\* has just decrypted a message
C7_Witness ==
    /\ Len(privs) = 2
    /\ privs[1].private_key = privs[2].private_key
    /\ last.op = "decrypt"
    /\ last.status = "ok"

\* C8: key agreement has been invoked once per box built from a private and
\* a public key; Box(private_key, public_key) with both keys invokes it
\* exactly once, and decode, encrypt and decrypt never do.
C8_AgreementOnce ==
    /\ calls.crypto_box_beforenm = calls.keypair_boxes
    /\ last.op = "Box" =>
          Count(last.prims, "crypto_box_beforenm") =
              (IF last.args[1] # NoObj /\ last.args[2] # NoObj THEN 1 ELSE 0)
    /\ last.op \in {"decode", "encrypt", "decrypt"} =>
          Count(last.prims, "crypto_box_beforenm") = 0

C8_Witness ==
    /\ calls.keypair_boxes = 1
    /\ calls.crypto_box_beforenm = 1
    /\ last.op = "encrypt"
    /\ last.status = "ok"

\* C9: a box a caller holds is never changed: not by encrypt or decrypt,
\* whether they succeed or fail with InvalidNonceLength or
\* AuthenticationFailure, nor by any step of another thread.
C9_BoxReadOnly ==
    [][\A i \in DOMAIN boxes : i \in DOMAIN boxes' /\ boxes'[i] = boxes[i]]_vars

\* a decrypt failed on a box while the other thread was inside a call on it
C9_Witness ==
    /\ last.op = "decrypt"
    /\ last.status = "AuthenticationFailure"
    /\ \E t \in Threads :
          thr[t].pc \in {"encrypt", "decrypt"} /\ thr[t].i = last.args[1]

\* C10: every box a caller holds has a shared secret, and encrypt and
\* decrypt never run on a box without one.
C10_NoUnsetBox ==
    /\ \A i \in DOMAIN boxes : boxes[i].shared_key # None
    /\ last.op \in {"encrypt", "decrypt"} => last.self.shared_key # None

====
